---- MODULE Spec2Model ----
(***************************************************************************)
(* Model of pymic/transform/crop.py: the two cropping transforms          *)
(* CropWithBoundingBox and RandomCrop, their forward calls (__call__) and *)
(* their inverse_transform_for_prediction.                                *)
(*                                                                         *)
(* An array is a record [shape, data]: shape is the sequence of axis      *)
(* lengths, data maps every index (a sequence of 0-based coordinates) to  *)
(* the element stored there.  A sample is a record whose field "keys"     *)
(* lists the dictionary keys that are present.                            *)
(***************************************************************************)
EXTENDS Integers, Sequences, FiniteSets, TLC

\* ------------------------------------------------------------------ bounds
MaxSize == 3    \* largest length of a spatial axis of an input array
MaxChan == 2    \* largest channel count of an input array
MaxCells == 4   \* largest number of elements of an input array
MaxPred == 2    \* largest number of predictions handed to the inverse

SpatialDims == {1, 2}     \* numbers of spatial axes of the inputs
Voxels == {0, 1}          \* element values of images and labels

\* ------------------------------------------------------------ Python lists
Max2(a, b) == IF a >= b THEN a ELSE b
Min2(a, b) == IF a <= b THEN a ELSE b

\* list[1:]
Tail1(s) == IF Len(s) = 0 THEN <<>> ELSE Tail(s)
\* list[:2]
Head2(s) == SubSeq(s, 1, Min2(2, Len(s)))

RECURSIVE Product(_)
Product(s) == IF Len(s) = 0 THEN 1 ELSE Head(s) * Product(Tail(s))

RECURSIVE MaxOf(_)
MaxOf(s) == IF Len(s) = 0 THEN 0 ELSE Max2(Head(s), MaxOf(Tail(s)))

\* ------------------------------------------------------------------ arrays
Indices(shape) ==
    {idx \in [1..Len(shape) -> 0..(MaxOf(shape) - 1)] :
        \A i \in 1..Len(shape) : idx[i] < shape[i]}

NoArray == [shape |-> <<>>, data |-> <<>>]

\* np.zeros(shape)
Zeros(shape) == [shape |-> shape, data |-> [idx \in Indices(shape) |-> 0]]

\* position of idx in row-major order, counted from 1
RECURSIVE LinearIndex(_, _)
LinearIndex(shape, idx) ==
    IF Len(shape) = 0 THEN 0
    ELSE idx[Len(idx)] + shape[Len(shape)] *
            LinearIndex(SubSeq(shape, 1, Len(shape) - 1), SubSeq(idx, 1, Len(idx) - 1))

\* an array whose elements are pairwise different and non-zero
Ramp(shape) == [shape |-> shape, data |-> [idx \in Indices(shape) |-> 1 + LinearIndex(shape, idx)]]

\* every array of the given shape with elements in Voxels
Arrays(shape) == {[shape |-> shape, data |-> d] : d \in [Indices(shape) -> Voxels]}

NonZero(a) == {idx \in DOMAIN a.data : a.data[idx] # 0}

SetMin(S) == CHOOSE x \in S : \A y \in S : x <= y
SetMax(S) == CHOOSE x \in S : \A y \in S : x >= y


\* ------------------------------------------- pymic.util.image_process
\* get_ND_bounding_box(volume): per axis, the smallest index of a non-zero
\* element and one past the largest.  Only defined when volume has one.
get_ND_bounding_box(volume) ==
    LET nz == NonZero(volume)
        n  == Len(volume.shape)
    IN  << [i \in 1..n |-> SetMin({idx[i] : idx \in nz})],
           [i \in 1..n |-> SetMax({idx[i] : idx \in nz}) + 1] >>

\* a[lo:hi] on an axis of length n, for lo, hi >= 0
SliceLo(lo, n) == Min2(lo, n)
SliceLen(lo, hi, n) == Max2(0, Min2(hi, n) - Min2(lo, n))

\* shape of volume[bb_min[0]:bb_max[0], bb_min[1]:bb_max[1], ...]
RegionShape(shape, bb_min, bb_max) ==
    [i \in 1..Len(shape) |-> SliceLen(bb_min[i], bb_max[i], shape[i])]

\* crop_ND_volume_with_bounding_box(volume, bb_min, bb_max)
crop_ND_volume_with_bounding_box(volume, bb_min, bb_max) ==
    LET n   == Len(volume.shape)
        shp == RegionShape(volume.shape, bb_min, bb_max)
    IN  [shape |-> shp,
         data  |-> [idx \in Indices(shp) |->
                      volume.data[[i \in 1..n |-> idx[i] + SliceLo(bb_min[i], volume.shape[i])]]]]

\* the shape `sub` takes when it is assigned to a region of shape `region`:
\* axes are aligned from the right, missing leading axes count as length 1
Padded(sub, region) ==
    [i \in 1..Len(region) |->
        IF i <= Len(region) - Len(sub) THEN 1 ELSE sub[i - (Len(region) - Len(sub))]]

Broadcastable(sub, region) ==
    /\ Len(sub) <= Len(region)
    /\ \A i \in 1..Len(region) :
          Padded(sub, region)[i] = region[i] \/ Padded(sub, region)[i] = 1

\* set_ND_volume_roi_with_bounding_box_range(volume, bb_min, bb_max, sub_volume):
\* volume[bb_min:bb_max] = sub_volume; fails when the shapes do not fit
set_ND_volume_roi_with_bounding_box_range(volume, bb_min, bb_max, sub_volume) ==
    LET n      == Len(volume.shape)
        region == RegionShape(volume.shape, bb_min, bb_max)
        k      == n - Len(sub_volume.shape)
        inside(idx) == \A i \in 1..n :
                          /\ idx[i] >= SliceLo(bb_min[i], volume.shape[i])
                          /\ idx[i] <  SliceLo(bb_min[i], volume.shape[i]) + region[i]
        src(idx) == [j \in 1..Len(sub_volume.shape) |->
                        IF sub_volume.shape[j] = 1 THEN 0
                        ELSE idx[j + k] - SliceLo(bb_min[j + k], volume.shape[j + k])]
    IN  IF Len(bb_min) # n \/ ~Broadcastable(sub_volume.shape, region)
        THEN [ok |-> FALSE, arr |-> NoArray]
        ELSE [ok |-> TRUE,
              arr |-> [shape |-> volume.shape,
                       data  |-> [idx \in Indices(volume.shape) |->
                                    IF inside(idx) THEN sub_volume.data[src(idx)]
                                    ELSE volume.data[idx]]]]

\* -------------------------------------------------------------------- json
MaxInt == 2 * MaxSize + MaxChan + 2

\* the decimal text of the integers the parameter can hold
Decimal == [n \in 0..MaxInt |-> ToString(n)]

ParseInt(tok) == CHOOSE n \in 0..MaxInt : Decimal[n] = tok

RECURSIVE Join(_)
Join(parts) ==
    IF Len(parts) = 0 THEN <<>>
    ELSE IF Len(parts) = 1 THEN parts[1]
    ELSE parts[1] \o <<",">> \o Join(Tail(parts))

dumps_list(s) == <<"[">> \o Join([i \in 1..Len(s) |-> <<Decimal[s[i]]>>]) \o <<"]">>

\* json.dumps of a tuple of lists of integers: the text, token by token
json_dumps(t) == <<"[">> \o Join([i \in 1..Len(t) |-> dumps_list(t[i])]) \o <<"]">>


RECURSIVE Parse(_, _, _, _)
Parse(toks, depth, cur, acc) ==
    IF Len(toks) = 0 THEN acc
    ELSE LET t == Head(toks) r == Tail(toks)
         IN  IF t = "[" THEN Parse(r, depth + 1, <<>>, acc)
             ELSE IF t = "]" THEN
                    IF depth = 2 THEN Parse(r, 1, <<>>, Append(acc, cur))
                    ELSE Parse(r, depth - 1, <<>>, acc)
             ELSE IF t = "," THEN Parse(r, depth, cur, acc)
             ELSE Parse(r, depth, Append(cur, ParseInt(t)), acc)

\* json.loads of such a text: a list of lists of integers
json_loads(text) == Parse(text, 0, <<>>, <<>>)


\* ------------------------------------------------------------ configuration
None == [none |-> TRUE, val |-> <<>>]
Some(v) == [none |-> FALSE, val |-> v]

Ones(n) == [i \in 1..n |-> 1]

\* percentages standing for the floats foreground_ratio and random.random()
FgRatios == {50, 100}
UDraws == {0, 99}
MaskLabels == {<<1>>, <<0, 1>>}

\* lists whose length is not the number of spatial axes
WrongLength(d) == {Ones(d - 1), Ones(d + 1)}

MaxStart == 1   \* largest entry of an explicit start
MaxOut == 2     \* largest entry of output_size

Starts(d) == {None} \cup {Some(v) : v \in [1..d -> 0..MaxStart] \cup WrongLength(d)}
OutputSizes(d) == [1..d -> 1..MaxOut] \cup WrongLength(d)

\* CropWithBoundingBox.__init__
CropWithBoundingBox_init(start, output_size) ==
    [start |-> start, output_size |-> output_size,
     fg_focus |-> FALSE, fg_ratio |-> 0, mask_label |-> None]

\* RandomCrop.__init__
RandomCrop_init(output_size, fg_focus, fg_ratio, mask_label) ==
    [start |-> None, output_size |-> Some(output_size),
     fg_focus |-> fg_focus, fg_ratio |-> fg_ratio, mask_label |-> mask_label]

CropWithBoundingBox_configs(d) ==
    {CropWithBoundingBox_init(st, os) :
        st \in Starts(d), os \in {None} \cup {Some(v) : v \in OutputSizes(d)}}

RandomCrop_plain(d) == {RandomCrop_init(os, FALSE, 100, None) : os \in OutputSizes(d)}

RandomCrop_focus(d) ==
    {RandomCrop_init(os, TRUE, fr, Some(ml)) :
        os \in OutputSizes(d), fr \in FgRatios, ml \in MaskLabels}

\* ------------------------------------------------------------------ samples
Shapes ==
    {sh \in UNION {{<<c>> \o sp : c \in 1..MaxChan, sp \in [1..d -> 1..MaxSize]} :
                      d \in SpatialDims} : Product(sh) <= MaxCells}

\* an array whose spatial shape differs from `shape` on every axis
Mismatched(shape) ==
    Ramp(<<1>> \o [i \in 1..(Len(shape) - 1) |-> IF shape[i + 1] = 1 THEN 2 ELSE 1])

\* a channel count other than c, when there is one
OtherChannels(c) == (c % MaxChan) + 1

\* arrays that accompany an image of the given shape as label or weight:
\* of its spatial shape (with another channel count, when there is one), or
\* of another spatial shape
Companions(shape) ==
    {Ramp(<<OtherChannels(shape[1])>> \o Tail(shape)), Mismatched(shape)}

\* label masks of the image's spatial shape
Masks(shape) ==
    UNION {Arrays(<<c>> \o Tail(shape)) :
             c \in {c \in 1..MaxChan : c * Product(Tail(shape)) <= MaxCells}}

Sample(image, label, weight) ==
    [keys    |-> {"image"} \cup (IF label = NoArray THEN {} ELSE {"label"})
                           \cup (IF weight = NoArray THEN {} ELSE {"weight"}),
     image   |-> image,
     label   |-> label,
     weight  |-> weight,
     param   |-> [is_list |-> FALSE, text |-> <<>>],
     predict |-> [is_list |-> FALSE, arrs |-> <<>>]]

\* an image alone, with any content
Alone(shape) == {Sample(im, NoArray, NoArray) : im \in Arrays(shape)}

\* an image with or without a label and a weight, of its shape or another
Accompanied(shape) ==
    {Sample(Ramp(shape), l, w) :
        l \in {NoArray} \cup Companions(shape),
        w \in {NoArray} \cup Companions(shape)}

\* an image with any label mask of its spatial shape
Masked(shape) == {Sample(Ramp(shape), l, NoArray) : l \in Masks(shape)}

\* the transforms and samples the model applies them to.  The bounding box
\* of CropWithBoundingBox needs an image with a non-zero element.
Inputs(shape) ==
    LET d == Len(shape) - 1
    IN  ({"CropWithBoundingBox"} \X CropWithBoundingBox_configs(d) \X
            ({s \in Alone(shape) : NonZero(s.image) # {}} \cup Accompanied(shape)))
        \cup ({"RandomCrop"} \X RandomCrop_plain(d) \X (Alone(shape) \cup Accompanied(shape)))
        \cup ({"RandomCrop"} \X RandomCrop_focus(d) \X (Accompanied(shape) \cup Masked(shape)))

\* -------------------------------------------------------------------- state
VARIABLES
    transform,  \* "CropWithBoundingBox" or "RandomCrop"
    self,       \* the transform object's attributes
    sample,     \* the sample dictionary
    input,      \* the sample as it was handed to the forward call
    locals,     \* crop_min, crop_max as __call__ leaves them, and the path taken
    given,      \* sample['predict'] as it was handed to the inverse
    pc,         \* "ready", "cropped", "predicted", "inverted" or "failed"
    err         \* the exception that ended a call, "" if none

vars == <<transform, self, sample, input, locals, given, pc, err>>

NoLocals == [crop_min |-> <<>>, crop_max |-> <<>>, fg |-> FALSE]

Init ==
    /\ \E shape \in Shapes : \E in \in Inputs(shape) :
          /\ transform = in[1]
          /\ self = in[2]
          /\ sample = in[3]
    /\ input = sample
    /\ locals = NoLocals
    /\ given = [is_list |-> FALSE, arrs |-> <<>>]
    /\ pc = "ready"
    /\ err = ""


\* ------------------------------------------------- the forward calls
\* crop.py 40-42: the centered origin on axis i, clamped at 0
CenteredMin(bb_min, bb_max, output_size, i) ==
    Max2(0, ((bb_min[i] + bb_max[i] + 1) \div 2) - (output_size[i] \div 2))

\* SizedMax taking output_size as the last index instead of the extent
SizedMax_inclusive(crop_min, output_size, input_dim) ==
    [i \in 1..input_dim |-> crop_min[i] + output_size[i] - 1]

\* crop.py 43, 52, 156: crop_max = [crop_min[i] + output_size[i]]
SizedMax(crop_min, output_size, input_dim) ==
    [i \in 1..input_dim |-> crop_min[i] + output_size[i]]

\* SpatialBox dropping the last axis instead of the channel axis
SpatialBox_last(bb) ==
    << SubSeq(bb[1], 1, Len(bb[1]) - 1), SubSeq(bb[2], 1, Len(bb[2]) - 1) >>

\* crop.py 34: bb_min, bb_max = bb_min[1:], bb_max[1:]
SpatialBox(bb) == << Tail1(bb[1]), Tail1(bb[2]) >>

Bounds(e, lo, hi) == [err |-> e, crop_min |-> lo, crop_max |-> hi]

\* crop.py 33-52: the spatial crop bounds of CropWithBoundingBox, or the
\* exception raised on the way
CropWithBoundingBox_bounds(cfg, image) ==
    LET input_dim == Len(image.shape) - 1
        bb        == SpatialBox(get_ND_bounding_box(image))
        bb_min    == bb[1]
        bb_max    == bb[2]
        centered  == [i \in 1..input_dim |->
                        CenteredMin(bb_min, bb_max, cfg.output_size.val, i)]
    IN  IF cfg.start.none
        THEN IF cfg.output_size.none
             THEN Bounds("", bb_min, bb_max)
             ELSE IF Len(cfg.output_size.val) # input_dim
                  THEN Bounds("AssertionError", <<>>, <<>>)
                  ELSE Bounds("", centered,
                              SizedMax(centered, cfg.output_size.val, input_dim))
        ELSE IF Len(cfg.start.val) # input_dim
             THEN Bounds("AssertionError", <<>>, <<>>)
             ELSE IF cfg.output_size.none
                  \* line 48 takes len() of None; lines 49-50 are never reached
                  THEN Bounds("TypeError", <<>>, <<>>)
                  ELSE IF Len(cfg.output_size.val) < input_dim
                       \* line 52 indexes past the end of output_size
                       THEN Bounds("IndexError", <<>>, <<>>)
                       ELSE Bounds("", cfg.start.val,
                                   SizedMax(cfg.start.val, cfg.output_size.val, input_dim))

\* crop.py 60-64 and 65-69: an accompanying array is cropped with its own
\* channel count when its spatial shape is the image's
Follows(smp, key, image) ==
    key \in smp.keys /\ Tail1(smp[key].shape) = Tail1(image.shape)

\* WithChannels leaving the image's channel count in crop_max[0]
WithChannels_kept(crop_max, arr) == crop_max

WithChannels(crop_max, arr) == [crop_max EXCEPT ![1] = arr.shape[1]]

\* crop.py 53-70 (and 158-175): prepend the channel bounds, store the
\* parameter, crop the image, then label and weight
CropSample(smp, key, crop_min_sp, crop_max_sp) ==
    LET image     == smp.image
        crop_min  == <<0>> \o crop_min_sp
        crop_max  == <<image.shape[1]>> \o crop_max_sp
        text      == json_dumps(<<image.shape, crop_min, crop_max>>)
        crop_max1 == IF Follows(smp, "label", image)
                     THEN WithChannels(crop_max, smp.label) ELSE crop_max
        crop_max2 == IF Follows(smp, "weight", image)
                     THEN WithChannels(crop_max1, smp.weight) ELSE crop_max1
    IN  [sample |->
            [smp EXCEPT
                !.keys   = @ \cup {key},
                !.param  = [is_list |-> FALSE, text |-> text],
                !.image  = crop_ND_volume_with_bounding_box(image, crop_min, crop_max),
                !.label  = IF Follows(smp, "label", image)
                           THEN crop_ND_volume_with_bounding_box(@, crop_min, crop_max1)
                           ELSE @,
                !.weight = IF Follows(smp, "weight", image)
                           THEN crop_ND_volume_with_bounding_box(@, crop_min, crop_max2)
                           ELSE @],
         crop_min |-> crop_min,
         crop_max |-> crop_max2]

Raise(e) ==
    /\ pc' = "failed"
    /\ err' = e
    /\ UNCHANGED <<transform, self, sample, input, locals, given>>

Return(res, fg) ==
    /\ sample' = res.sample
    /\ locals' = [crop_min |-> res.crop_min, crop_max |-> res.crop_max, fg |-> fg]
    /\ pc' = "cropped"
    /\ UNCHANGED <<transform, self, input, given, err>>

\* CropWithBoundingBox.__call__
CropWithBoundingBox_call ==
    /\ pc = "ready"
    /\ transform = "CropWithBoundingBox"
    /\ LET b == CropWithBoundingBox_bounds(self, sample.image)
       IN  IF b.err # ""
           THEN Raise(b.err)
           ELSE Return(CropSample(sample, "CropWithBoundingBox_Param",
                                  b.crop_min, b.crop_max), FALSE)

\* the lists [random.randint(lo[i], hi[i]) for i in range(n)] can yield
DrawLists(lo, hi) ==
    {r \in [1..Len(lo) -> 0..MaxOf(hi)] : \A i \in 1..Len(lo) : lo[i] <= r[i] /\ r[i] <= hi[i]}

\* crop.py 141-143: the union of label == v over mask_label
ForegroundMask(label, mask_label) ==
    [shape |-> label.shape,
     data  |-> [idx \in DOMAIN label.data |->
                  IF \E k \in 1..Len(mask_label) : label.data[idx] = mask_label[k]
                  THEN 1 ELSE 0]]

\* crop.py 144-149: the mask's bounding box, the whole volume if it is empty
MaskBox(mask) ==
    LET bb == IF NonZero(mask) = {}
              THEN << [i \in 1..Len(mask.shape) |-> 0], mask.shape >>
              ELSE get_ND_bounding_box(mask)
    IN  << Tail1(bb[1]), Tail1(bb[2]) >>

\* FocusMin without the clamp to input_shape - output_size
FocusMin_unclamped(r, output_size, input_shape, i) ==
    Max2(0, r[i] - (output_size[i] \div 2))

\* crop.py 150-154: center the drawn point r, clamp into the image
FocusMin(r, output_size, input_shape, i) ==
    Min2(Max2(0, r[i] - (output_size[i] \div 2)), input_shape[i + 1] - output_size[i])

\* RandomCrop.__call__
RandomCrop_call ==
    /\ pc = "ready"
    /\ transform = "RandomCrop"
    /\ LET image       == sample.image
           input_shape == image.shape
           input_dim   == Len(input_shape) - 1
           output_size == self.output_size.val
           crop_margin == [i \in 1..input_dim |-> input_shape[i + 1] - output_size[i]]
           finish(crop_min, fg) ==
               Return(CropSample(sample, "RandomCrop_Param", crop_min,
                                 SizedMax(crop_min, output_size, input_dim)), fg)
           focus ==
               IF "label" \notin sample.keys THEN Raise("KeyError")
               ELSE IF self.mask_label.none THEN Raise("TypeError")
               ELSE LET box == MaskBox(ForegroundMask(sample.label, self.mask_label.val))
                    IN  \E r \in DrawLists(box[1], box[2]) :
                           finish([i \in 1..input_dim |->
                                      FocusMin(r, output_size, input_shape, i)], TRUE)
       IN  IF Len(output_size) # input_dim
           THEN Raise("AssertionError")
           ELSE IF \E i \in 1..input_dim : crop_margin[i] < 0
                \* random.randint(0, item) with item < 0
                THEN Raise("ValueError")
                ELSE \E crop_min \in DrawLists([i \in 1..input_dim |-> 0], crop_margin) :
                        IF self.fg_focus
                        THEN \E u \in UDraws :
                                IF u < self.fg_ratio THEN focus ELSE finish(crop_min, FALSE)
                        ELSE finish(crop_min, FALSE)

\* ------------------------------------------------------------ prediction
\* a model output for the cropped image x: batch axis of length 1, c
\* channels, the spatial shape of x; with c the channel count of x it is x
\* itself under a batch axis
Net(x, c) ==
    LET shp == <<1, c>> \o Tail(x.shape)
    IN  [shape |-> shp,
         data  |-> [idx \in Indices(shp) |->
                      x.data[<<idx[2] % x.shape[1]>> \o SubSeq(idx, 3, Len(idx))]]]

\* the channel count of the j-th of several predictions: the image's for
\* the first, then the others in turn
NthChannels(x, j) == ((x.shape[1] + j - 2) % MaxChan) + 1

\* what inference leaves in the sample: the parameter as stored or collated
\* into a list by the data loader, and one prediction or a list of them
Predictions(x) ==
    {[wrap |-> FALSE, is_list |-> FALSE, arrs |-> <<Net(x, x.shape[1])>>],
     [wrap |-> TRUE, is_list |-> FALSE, arrs |-> <<Net(x, OtherChannels(x.shape[1]))>>]} \cup
    {[wrap |-> TRUE, is_list |-> TRUE, arrs |-> [j \in 1..k |-> Net(x, NthChannels(x, j))]] :
        k \in 1..MaxPred}

Predict ==
    /\ pc = "cropped"
    /\ \E p \in Predictions(sample.image) :
          /\ sample' = [sample EXCEPT
                          !.keys    = @ \cup {"predict"},
                          !.param   = IF p.wrap THEN [is_list |-> TRUE, text |-> <<@.text>>]
                                      ELSE @,
                          !.predict = [is_list |-> p.is_list, arrs |-> p.arrs]]
          /\ given' = [is_list |-> p.is_list, arrs |-> p.arrs]
    /\ pc' = "predicted"
    /\ UNCHANGED <<transform, self, input, locals, err>>

\* ---------------------------------------------------------- the inverses
\* crop.py 78-85 (183-190): read the stored parameter back
LoadParam(param) ==
    IF param.is_list THEN json_loads(param.text[1]) ELSE json_loads(param.text)

\* crop.py 90-95, 98-103, 192-197: rebuild one prediction; the three names
\* are rebound, so the result carries them along
Rebuild(origin_shape, crop_min, crop_max, predict_i) ==
    LET shp == Head2(predict_i.shape) \o Tail1(origin_shape)
        lo  == <<0, 0>> \o Tail1(crop_min)
        hi  == Head2(predict_i.shape) \o Tail1(crop_max)
        res == set_ND_volume_roi_with_bounding_box_range(Zeros(shp), lo, hi, predict_i)
    IN  [ok |-> res.ok, arr |-> res.arr,
         origin_shape |-> shp, crop_min |-> lo, crop_max |-> hi]

\* crop.py 88-96: the loop over several predictions
RECURSIVE RebuildAll(_, _, _, _, _)
RebuildAll(origin_shape, crop_min, crop_max, predict, output_predict) ==
    IF Len(predict) = 0 THEN [ok |-> TRUE, arrs |-> output_predict]
    ELSE LET r == Rebuild(origin_shape, crop_min, crop_max, Head(predict))
         IN  IF ~r.ok THEN [ok |-> FALSE, arrs |-> output_predict]
             ELSE RebuildAll(r.origin_shape, r.crop_min, r.crop_max,
                             Tail(predict), Append(output_predict, r.arr))

Inverted(arrs, is_list) ==
    /\ sample' = [sample EXCEPT !.predict = [is_list |-> is_list, arrs |-> arrs]]
    /\ pc' = "inverted"
    /\ UNCHANGED <<transform, self, input, locals, given, err>>

\* CropWithBoundingBox.inverse_transform_for_prediction
CropWithBoundingBox_inverse ==
    /\ pc = "predicted"
    /\ transform = "CropWithBoundingBox"
    /\ LET params  == LoadParam(sample.param)
           predict == sample.predict
           res     == IF predict.is_list
                      THEN RebuildAll(params[1], params[2], params[3], predict.arrs, <<>>)
                      ELSE LET r == Rebuild(params[1], params[2], params[3], predict.arrs[1])
                           IN  [ok |-> r.ok, arrs |-> <<r.arr>>]
       IN  IF res.ok THEN Inverted(res.arrs, predict.is_list) ELSE Raise("ValueError")

\* RandomCrop.inverse_transform_for_prediction
RandomCrop_inverse ==
    /\ pc = "predicted"
    /\ transform = "RandomCrop"
    /\ LET params  == LoadParam(sample.param)
           predict == sample.predict
           r       == Rebuild(params[1], params[2], params[3], predict.arrs[1])
       IN  IF predict.is_list
           \* a list has no attribute shape
           THEN Raise("AttributeError")
           ELSE IF r.ok THEN Inverted(<<r.arr>>, FALSE) ELSE Raise("ValueError")

Next ==
    \/ CropWithBoundingBox_call
    \/ RandomCrop_call
    \/ Predict
    \/ CropWithBoundingBox_inverse
    \/ RandomCrop_inverse

Spec == Init /\ [][Next]_vars

\* the forward calls alone
Forward ==
    \/ CropWithBoundingBox_call
    \/ RandomCrop_call

SpecForward == Init /\ [][Forward]_vars

\* ---------------------------------------------------------------- claims
ParamKey ==
    IF transform = "CropWithBoundingBox" THEN "CropWithBoundingBox_Param"
    ELSE "RandomCrop_Param"

\* the forward call has returned
ForwardDone == ParamKey \in sample.keys
\* the inverse has been called and has ended
InverseRan == "predict" \in sample.keys /\ pc \in {"inverted", "failed"}

InputShape == input.image.shape
InputDim == Len(InputShape) - 1
Axes == 1..InputDim

\* the stored (original_shape, crop_min, crop_max)
Stored == LoadParam(sample.param)
StoredMin(st, i) == st[2][i + 1]
StoredMax(st, i) == st[3][i + 1]

\* the spatial coordinates sp lie in the stored box [crop_min, crop_max)
InBox(st, sp) == \A i \in Axes : StoredMin(st, i) <= sp[i] /\ sp[i] < StoredMax(st, i)

OutputSizeFits ==
    /\ ~self.output_size.none
    /\ Len(self.output_size.val) = InputDim
    /\ \A i \in Axes : self.output_size.val[i] <= InputShape[i + 1]

\* a prediction p put back at the stored spatial bounds of a zero array of
\* shape [p's batch, p's channels, *original spatial shape]
Reconstructed(st, p) ==
    LET shp == Head2(p.shape) \o Tail(InputShape)
    IN  [shape |-> shp,
         data  |-> [idx \in Indices(shp) |->
                      IF InBox(st, SubSeq(idx, 3, Len(idx)))
                      THEN p.data[[j \in 1..Len(idx) |->
                                     IF j <= 2 THEN idx[j] ELSE idx[j] - StoredMin(st, j - 2)]]
                      ELSE 0]]

\* the original image under a batch axis, zero outside the stored box
MaskedOriginal(st) ==
    LET shp == <<1>> \o InputShape
    IN  [shape |-> shp,
         data  |-> [idx \in Indices(shp) |->
                      IF InBox(st, SubSeq(idx, 3, Len(idx))) THEN input.image.data[Tail(idx)]
                      ELSE 0]]

\* the prediction handed to the inverse is the cropped image under a batch axis
IdentityPrediction ==
    /\ ~given.is_list
    /\ given.arrs = <<Net(sample.image, sample.image.shape[1])>>

\* a configuration the transform documents as usable on the sample
Usable ==
    IF transform = "CropWithBoundingBox"
    THEN /\ self.start.none \/ Len(self.start.val) = InputDim
         /\ self.output_size.none \/ Len(self.output_size.val) = InputDim
    ELSE /\ OutputSizeFits
         /\ self.fg_focus => "label" \in input.keys

\* C1: for any sample and either transform in any usable configuration, the
\* forward crop returns, and the inverse applied to the cropped image under a
\* batch axis gives the original image inside [crop_min, crop_max) and zero
\* outside, in the original image's shape.
C1_RoundTrip ==
    Usable =>
       /\ pc # "ready" => ForwardDone
       /\ (InverseRan /\ IdentityPrediction) =>
             /\ pc = "inverted"
             /\ sample.predict.arrs = <<MaskedOriginal(Stored)>>

\* the round trip of every forward call that returned
RoundTripOfReturned ==
    (InverseRan /\ IdentityPrediction) =>
       /\ pc = "inverted"
       /\ sample.predict.arrs = <<MaskedOriginal(Stored)>>

\* C2: CropWithBoundingBox's inverse replaces one prediction by one array and
\* k predictions by a list of k arrays, each of them the prediction put back
\* at the stored bounds of a zero array of shape [batch, channels, *original
\* spatial shape].
C2_InverseOfEach ==
    (transform = "CropWithBoundingBox" /\ InverseRan) =>
       LET st == Stored
       IN  /\ pc = "inverted"
           /\ sample.predict.is_list = given.is_list
           /\ Len(sample.predict.arrs) = Len(given.arrs)
           /\ \A j \in 1..Len(given.arrs) :
                 sample.predict.arrs[j] = Reconstructed(st, given.arrs[j])

\* C3: with start = None and output_size given, the stored bounds lie inside
\* the image on every spatial axis.
C3_CenteredInside ==
    (/\ transform = "CropWithBoundingBox"
     /\ ForwardDone
     /\ self.start.none
     /\ ~self.output_size.none) =>
       LET st == Stored
       IN  \A i \in Axes : StoredMin(st, i) >= 0 /\ StoredMax(st, i) <= InputShape[i + 1]

\* C4: when output_size fits the image, RandomCrop's crop_min lies in
\* [0, input_shape - output_size] on every spatial axis, whatever is drawn
\* and whichever path is taken.
C4_OffsetsInRange ==
    (transform = "RandomCrop" /\ ForwardDone /\ OutputSizeFits) =>
       LET st == Stored
       IN  \A i \in Axes :
              /\ 0 <= StoredMin(st, i)
              /\ StoredMin(st, i) <= InputShape[i + 1] - self.output_size.val[i]

\* the array under key came with the sample and has the image's spatial shape
FollowsImage(key) ==
    key \in input.keys /\ Tail(input[key].shape) = Tail(InputShape)

\* the voxels of the label whose value is in mask_label
Foreground == NonZero(ForegroundMask(input.label, self.mask_label.val))

\* the foreground path was taken on a non-empty mask and the upper clamp
\* decided the origin on some axis
C4_Witness ==
    /\ transform = "RandomCrop"
    /\ pc = "cropped"
    /\ locals.fg
    /\ OutputSizeFits
    /\ Foreground # {}
    /\ LET st == Stored
       IN  \E i \in Axes :
              /\ StoredMin(st, i) > 0
              /\ StoredMin(st, i) = InputShape[i + 1] - self.output_size.val[i]

\* C5: with fg_focus, fg_ratio = 1.0 and exactly one voxel of the label in
\* mask_label, the crop box contains that voxel, whatever is drawn.
C5_FocusCoversVoxel ==
    (/\ transform = "RandomCrop"
     /\ ForwardDone
     /\ self.fg_focus
     /\ self.fg_ratio = 100
     /\ OutputSizeFits
     /\ FollowsImage("label")
     /\ Cardinality(Foreground) = 1) =>
       LET st == Stored
       IN  \A v \in Foreground : InBox(st, Tail(v))

\* C6: after the forward call, crop_max - crop_min is the configured
\* output_size on every spatial axis, in both transforms.
C6_SizeInvariant ==
    (ForwardDone /\ ~self.output_size.none) =>
       LET st == Stored
       IN  \A i \in Axes : StoredMax(st, i) - StoredMin(st, i) = self.output_size.val[i]

\* a centered crop of two spatial axes whose origin is not the image's
C6_Witness ==
    /\ transform = "CropWithBoundingBox"
    /\ pc = "cropped"
    /\ self.start.none
    /\ ~self.output_size.none
    /\ InputDim = 2
    /\ LET st == Stored
       IN  \E i \in Axes : StoredMin(st, i) > 0 /\ self.output_size.val[i] > 1

\* a list of the configuration has a length other than the image's number
\* of spatial axes
LengthMismatch ==
    \/ ~self.output_size.none /\ Len(self.output_size.val) # InputDim
    \/ /\ transform = "CropWithBoundingBox"
       /\ ~self.start.none
       /\ Len(self.start.val) # InputDim

\* C7: a forward call whose output_size or start has the wrong length ends
\* in an assertion failure and crops nothing.
C7_LengthAsserted ==
    (LengthMismatch /\ pc # "ready") =>
       /\ err = "AssertionError"
       /\ ~ForwardDone
       /\ sample = input

\* the slice of arr over the stored spatial bounds, all channels kept
SpatialSlice(st, arr) ==
    LET shp == <<arr.shape[1]>> \o
               [i \in Axes |-> Max2(0, Min2(StoredMax(st, i), arr.shape[i + 1])
                                        - Min2(StoredMin(st, i), arr.shape[i + 1]))]
    IN  [shape |-> shp,
         data  |-> [idx \in Indices(shp) |->
                      arr.data[[j \in 1..Len(idx) |->
                                  IF j = 1 THEN idx[j] ELSE idx[j] + StoredMin(st, j - 1)]]]]

\* C8: label and weight become their slices over the image's spatial bounds,
\* all channels kept, exactly when present with the image's spatial shape,
\* and stay as they were otherwise; the stored crop_max[0] is the image's
\* channel count.
C8_CompanionsFollow ==
    ForwardDone =>
       LET st == Stored
       IN  /\ \A key \in {"label", "weight"} :
                 /\ (key \in sample.keys) = (key \in input.keys)
                 /\ sample[key] = IF FollowsImage(key) THEN SpatialSlice(st, input[key])
                                  ELSE input[key]
           /\ sample.image = SpatialSlice(st, input.image)
           /\ st[3][1] = InputShape[1]
           /\ st[2][1] = 0

\* the label has more channels than the image and was cropped to a smaller
\* array that kept them, the weight has another spatial shape and stayed
C8_Witness ==
    /\ pc = "cropped"
    /\ FollowsImage("label")
    /\ input.label.shape[1] > InputShape[1]
    /\ "weight" \in input.keys
    /\ ~FollowsImage("weight")
    /\ sample.label # input.label
    /\ sample.label.shape[1] = input.label.shape[1]
    /\ sample.weight = input.weight

\* C9: with start = None and output_size = None the stored bounds are the
\* bounding box of the image's non-zero elements: they contain every one of
\* them, the box touches one on each side of every axis, the channel
\* entries are 0 and the channel count, and the cropped image holds every
\* non-zero element.
C9_BoundingBoxCrop ==
    (/\ transform = "CropWithBoundingBox"
     /\ ForwardDone
     /\ self.start.none
     /\ self.output_size.none) =>
       LET st == Stored
       IN  /\ st[2][1] = 0
           /\ st[3][1] = InputShape[1]
           /\ \A v \in NonZero(input.image) :
                 /\ InBox(st, Tail(v))
                 /\ sample.image.data[[j \in 1..Len(v) |->
                                         IF j = 1 THEN v[j] ELSE v[j] - StoredMin(st, j - 1)]]
                       = input.image.data[v]
           /\ \A i \in Axes :
                 /\ \E v \in NonZero(input.image) : v[i + 1] = StoredMin(st, i)
                 /\ \E v \in NonZero(input.image) : v[i + 1] = StoredMax(st, i) - 1
           /\ Cardinality(NonZero(sample.image)) = Cardinality(NonZero(input.image))

\* an image of two spatial axes with zeros on both sides of its box
C9_Witness ==
    /\ transform = "CropWithBoundingBox"
    /\ pc = "cropped"
    /\ self.start.none
    /\ self.output_size.none
    /\ InputDim = 2
    /\ LET st == Stored
       IN  /\ \E i \in Axes : StoredMin(st, i) > 0
           /\ \E i \in Axes : StoredMax(st, i) < InputShape[i + 1]
    /\ sample.image.shape # InputShape

\* the bounding box of the input image, per spatial axis
BoxMin(i) == SetMin({v[i + 1] : v \in NonZero(input.image)})
BoxMax(i) == SetMax({v[i + 1] : v \in NonZero(input.image)}) + 1

\* C10: with start given and output_size = None the forward call returns
\* with crop_min = start and crop_max = start + the bounding box's extent.
C10_StartWithoutSize ==
    (/\ transform = "CropWithBoundingBox"
     /\ ~self.start.none
     /\ Len(self.start.val) = InputDim
     /\ self.output_size.none
     /\ pc # "ready") =>
       /\ ForwardDone
       /\ LET st == Stored
          IN  \A i \in Axes :
                 /\ StoredMin(st, i) = self.start.val[i]
                 /\ StoredMax(st, i) = self.start.val[i] + (BoxMax(i) - BoxMin(i))

====
